---- MODULE Spec2Model ----
(***************************************************************************)
(* Request/Reply coordination over RabbitMQ:                               *)
(* RabbitMQRequestReplyService (src/src/services/                          *)
(* RabbitMQRequestReplyService.ts) on top of RabbitMQConnection            *)
(* (src/src/messaging/RabbitMQConnection.ts).                              *)
(*                                                                         *)
(* The service runs on the single-threaded Node.js event loop.  One action *)
(* of the model is one run-to-completion piece of a handler: the code from *)
(* its entry (or from the resumption of an await) up to its next await or  *)
(* its return.  Timer callbacks and broker deliveries are macrotasks: they *)
(* run only when no promise continuation (microtask) is pending.           *)
(***************************************************************************)
EXTENDS Integers, Sequences, FiniteSets, TLC

(* ------------------------------ bounds -------------------------------- *)

\* sendRequest invocations in one run; invocation c draws the c-th uuid.
MaxCalls == 2

\* initialize() runs that get as far as registering a consumer on the reply
\* queue (cleanup() cancels none): no further initialize() starts once that
\* many consumers are registered or on their way.
MaxConsumers == 2

(* --------------------------- program constants ------------------------ *)

\* sendRequest's default for its timeout parameter.
DefaultTimeout == 30000

CallIds == 1..MaxCalls

\* A correlation id no sendRequest of this process generated.
ForeignId == MaxCalls + 1

\* No correlation id.
NoId == MaxCalls + 2

\* A number of milliseconds hi * 2^31 + lo, in two limbs: a delay above the
\* timer facility's limit of 2^31 - 1 does not fit one 32-bit integer.
Ms(hi, lo) == [hi |-> hi, lo |-> lo]

\* sendRequest called without its third argument.
Undefined == [given |-> FALSE, ms |-> Ms(0, 0)]

\* What a caller may pass as sendRequest's third argument: nothing, 0, an
\* in-range delay (1), or 2147483648 (one above the timer facility's limit).
TimeoutArgs ==
    [given : {TRUE}, ms : {Ms(0, 0), Ms(0, 1), Ms(1, 0)}] \cup {Undefined}

Payloads == {"d1", "d2"}

(* ------------------------------- maps ---------------------------------- *)

EmptyMap == [x \in {} |-> x]

MapSet(f, k, v) == [x \in (DOMAIN f) \cup {k} |-> IF x = k THEN v ELSE f[x]]

MapDelete(f, k) == [x \in (DOMAIN f) \ {k} |-> f[x]]

Min(S) == CHOOSE x \in S : \A y \in S : x <= y

(* ----------------------- messages and error values --------------------- *)

\* BaseResponse.error; present = FALSE is a response without the field, an
\* empty code or message is the field left out (or the empty string).
NoRemoteError == [present |-> FALSE, code |-> << >>, message |-> ""]

\* error.code is a string: the remote may send a decimal status ("404") or a
\* symbolic code ("NF").
RemoteErrors ==
    { [present |-> TRUE, code |-> <<"4", "0", "4">>, message |-> "face not found"],
      [present |-> TRUE, code |-> <<"N", "F">>, message |-> "face not found"],
      NoRemoteError }

NoResponse ==
    [requestId |-> ForeignId, success |-> FALSE, data |-> "", error |-> NoRemoteError]

\* The response envelopes a responder may send for correlation id `id`.
ResponsesFor(id) ==
    [requestId : {id}, success : {TRUE}, data : Payloads, error : {NoRemoteError}]
    \cup [requestId : {id}, success : {FALSE}, data : {""}, error : RemoteErrors]

\* AppError(code, message); detail holds the values interpolated in message.
AppError(code, message, detail) ==
    [code |-> code, message |-> message, detail |-> detail]

NoError == AppError(0, "", << >>)

NotInitializedError ==
    AppError(500, "RabbitMQRequestReplyService nao inicializado", << >>)

TimeoutError(timeout, requestId) ==
    AppError(504, "Request timeout", <<timeout, requestId>>)

TransportError(requestId) ==
    AppError(503, "Falha ao enviar request", <<requestId>>)

ShutdownError == AppError(503, "Service shutting down", << >>)

(* parseInt(s, 10): the value of the longest prefix of decimal digits,     *)
(* after an optional sign; NaN when there is none.                         *)
DigitValue(ch) ==
    CASE ch = "0" -> 0 [] ch = "1" -> 1 [] ch = "2" -> 2 [] ch = "3" -> 3
      [] ch = "4" -> 4 [] ch = "5" -> 5 [] ch = "6" -> 6 [] ch = "7" -> 7
      [] ch = "8" -> 8 [] ch = "9" -> 9 [] OTHER -> -1

RECURSIVE DigitsValue(_, _, _)
DigitsValue(s, i, acc) ==
    IF i > Len(s) \/ DigitValue(s[i]) < 0
    THEN acc
    ELSE DigitsValue(s, i + 1, acc * 10 + DigitValue(s[i]))

ParseInt10(s) ==
    LET neg == Len(s) > 0 /\ s[1] = "-"
        start == IF Len(s) > 0 /\ s[1] \in {"-", "+"} THEN 2 ELSE 1
        hasDigit == start <= Len(s) /\ DigitValue(s[start]) >= 0
        v == DigitsValue(s, start, 0)
    IN  [nan |-> ~hasDigit, value |-> IF ~hasDigit THEN 0 ELSE IF neg THEN 0 - v ELSE v]

\* The AppError handleResponse builds from a success = false response.
RemoteError(error) ==
    LET errorMessage == IF error.message = "" THEN "Face recognition service error"
                        ELSE error.message
        errorCode == IF error.code = << >> THEN <<"5", "0", "0">> ELSE error.code
        parsed == ParseInt10(errorCode)
        code == IF parsed.nan \/ parsed.value = 0 THEN 500 ELSE parsed.value
    IN  AppError(code, errorMessage, << >>)

(* ------------------------------ promises ------------------------------- *)

\* The promise sendRequest creates (responsePromise).  settles counts the
\* calls of its resolve/reject functions, settledBy is the correlation id of
\* the response or timer that settled it, waited the time from registration
\* to the timeout that rejected it.
NoHandle ==
    [state |-> "none", response |-> NoResponse, error |-> NoError,
     settles |-> 0, settledBy |-> NoId, waited |-> 0]

NewPromise == [NoHandle EXCEPT !.state = "pending"]

\* resolve(value) of a promise: only the first resolve/reject takes effect.
PromiseResolve(h, response) ==
    IF h.state = "pending"
    THEN [h EXCEPT !.state = "fulfilled", !.response = response,
                   !.settles = @ + 1, !.settledBy = response.requestId]
    ELSE [h EXCEPT !.settles = @ + 1]

\* reject(error) of a promise.
PromiseReject(h, error, by) ==
    IF h.state = "pending"
    THEN [h EXCEPT !.state = "rejected", !.error = error,
                   !.settles = @ + 1, !.settledBy = by]
    ELSE [h EXCEPT !.settles = @ + 1]

Settled(h) == h.state \in {"fulfilled", "rejected"}

(* ------------------------------- state --------------------------------- *)

VARIABLES
    isInitialized,    \* RabbitMQRequestReplyService.isInitialized
    pendingRequests,  \* RabbitMQRequestReplyService.pendingRequests (a Map)
    timers,           \* the armed setTimeout timers, by the requestId they close over
    calls,            \* each sendRequest invocation: position and outcome
    handle,           \* each invocation's responsePromise
    published,        \* envelopes the channel accepted: requestId -> envelope
    publishLog,       \* each invocation's calls of rabbitMQ.publish
    consumers,        \* consumers registered on the reply queue
    channelOpen,      \* RabbitMQConnection.channel is open (the broker has not closed it)
    inits,            \* initialize() invocations in progress, by position
    logged            \* the last warning or error line on the console

vars == <<isInitialized, pendingRequests, timers, calls, handle, published,
          publishLog, consumers, channelOpen, inits, logged>>

IdleCall == [pc |-> "idle", publishOk |-> FALSE, outcome |-> "none"]

NoPublish == [attempts |-> 0, registered |-> FALSE, timerArmed |-> FALSE]

Line(text, requestId) == [line |-> text, requestId |-> requestId]

Init ==
    /\ isInitialized = FALSE
    /\ pendingRequests = EmptyMap
    /\ timers = EmptyMap
    /\ calls = [c \in CallIds |-> IdleCall]
    /\ handle = [c \in CallIds |-> NoHandle]
    /\ published = EmptyMap
    /\ publishLog = [c \in CallIds |-> NoPublish]
    /\ consumers = 0
    /\ channelOpen = TRUE
    /\ inits = [assertQueue |-> 0, consume |-> 0, finish |-> 0]
    /\ logged = Line("none", NoId)

\* A promise continuation is queued: it runs before any timer callback or
\* broker delivery.
MicrotaskPending ==
    \/ \E c \in CallIds : calls[c].pc = "awaitPublish"
    \/ \E c \in CallIds : calls[c].pc = "awaitReply" /\ Settled(handle[c])
    \/ inits.finish > 0

\* getStats()
GetStats ==
    [pendingRequests |-> Cardinality(DOMAIN pendingRequests),
     isInitialized |-> isInitialized,
     replyQueue |-> "face.replies"]

(* ----------------------- setTimeout / clearTimeout --------------------- *)

\* The delay setTimeout arms: a delay below 1 or above 2^31-1 is set to 1.
TimerDelay(timeout) ==
    IF timeout.hi > 0 \/ timeout.lo < 1 THEN 1 ELSE timeout.lo

\* setTimeout(callback, timeout): the timer is due after TimerDelay(timeout);
\* its callback closes over requestId, timeout and the promise's reject.
SetTimeout(tm, requestId, c, timeout) ==
    MapSet(tm, requestId,
           [remaining |-> TimerDelay(timeout), timeout |-> timeout, call |-> c])

\* clearTimeout(pending.timeout)
ClearTimeout(tm, requestId) == MapDelete(tm, requestId)

(* ------------------------------ sendRequest ---------------------------- *)

\* The timeout parameter with its default.
EffectiveTimeout(arg) == IF arg.given THEN arg.ms ELSE Ms(0, DefaultTimeout)

\* An id generator that returns the same id every time.
UuidConstant(c) == 1

\* uuidv4(): a fresh id; invocation c draws c.
Uuid(c) == c

\* pendingRequests.set(requestId, {resolve, reject, timeout, requestId,
\* requestedAt}); age is Date.now() - requestedAt.
RegisterPending(reg, requestId, c) ==
    MapSet(reg, requestId,
           [requestId |-> requestId, call |-> c, timeout |-> requestId, age |-> 0])

\* fullRequest
FullRequest(requestId, timeout) ==
    [requestId |-> requestId, replyTo |-> "face.replies", timeout |-> timeout]

\* Program order of sendRequest's synchronous part: the Promise executor
\* (setTimeout, pendingRequests.set) has run when rabbitMQ.publish is called,
\* so publish sees the registry and the timers as the executor left them.
RegistryAtPublishSwapped(regBefore, tmBefore, regAfter, tmAfter) ==
    [reg |-> regBefore, tm |-> tmBefore]

RegistryAtPublish(regBefore, tmBefore, regAfter, tmAfter) ==
    [reg |-> regAfter, tm |-> tmAfter]

\* A sendRequest that waits until no request is pending.
NextCallWhenIdle(c) ==
    /\ calls[c].pc = "idle"
    /\ \A d \in CallIds : d < c => calls[d].pc # "idle"
    /\ pendingRequests = EmptyMap

\* The invocations so far are 1..c-1: c is the next one.
NextCall(c) ==
    /\ calls[c].pc = "idle"
    /\ \A d \in CallIds : d < c => calls[d].pc # "idle"

\* sendRequest that registers the request before it checks isInitialized.
SendRequestNotInitializedRegisters(c) ==
    /\ NextCall(c)
    /\ ~isInitialized
    /\ pendingRequests' = RegisterPending(pendingRequests, Uuid(c), c)
    /\ timers' = SetTimeout(timers, Uuid(c), c, EffectiveTimeout(Undefined))
    /\ handle' = [handle EXCEPT ![c] = NewPromise]
    /\ calls' = [calls EXCEPT ![c] = [@ EXCEPT !.pc = "done",
                                               !.outcome = "NotInitializedError"]]
    /\ UNCHANGED <<channelOpen, isInitialized, published, publishLog, consumers,
                   inits, logged>>

\* sendRequest called while the service is not initialized: throws.
SendRequestNotInitialized(c) ==
    /\ NextCall(c)
    /\ ~isInitialized
    /\ calls' = [calls EXCEPT ![c] = [@ EXCEPT !.pc = "done",
                                               !.outcome = "NotInitializedError"]]
    /\ UNCHANGED <<channelOpen, isInitialized, pendingRequests, timers, handle, published,
                   publishLog, consumers, inits, logged>>

\* sendRequest up to `await rabbitMQ.publish(...)`: the request is built, the
\* promise created (its executor arms the timer and registers the pending
\* request), and publish is called; publish either hands the envelope to the
\* channel (ok) or throws.
SendRequestStart(c, arg, ok) ==
    LET requestId == Uuid(c)
        timeout == EffectiveTimeout(arg)
        tm1 == SetTimeout(timers, requestId, c, timeout)
        reg1 == RegisterPending(pendingRequests, requestId, c)
        seen == RegistryAtPublish(pendingRequests, timers, reg1, tm1)
    IN  /\ NextCall(c)
        /\ isInitialized
        /\ ok => channelOpen
        /\ timers' = tm1
        /\ pendingRequests' = reg1
        /\ handle' = [handle EXCEPT ![c] = NewPromise]
        /\ publishLog' = [publishLog EXCEPT ![c] =
                             [attempts |-> @.attempts + 1,
                              registered |-> requestId \in DOMAIN seen.reg,
                              timerArmed |-> requestId \in DOMAIN seen.tm]]
        /\ published' = IF ok
                        THEN MapSet(published, requestId, FullRequest(requestId, timeout))
                        ELSE published
        /\ calls' = [calls EXCEPT ![c] = [@ EXCEPT !.pc = "awaitPublish",
                                                   !.publishOk = ok]]
        /\ UNCHANGED <<channelOpen, isInitialized, consumers, inits, logged>>

\* The catch block with the entry deleted and its timer left armed.
PublishFailedCleanupKeepsTimer(reg, tm, requestId) ==
    IF requestId \in DOMAIN reg
    THEN [reg |-> MapDelete(reg, requestId), tm |-> tm]
    ELSE [reg |-> reg, tm |-> tm]

\* The catch block that only rethrows.
PublishFailedCleanupLeavesEntry(reg, tm, requestId) == [reg |-> reg, tm |-> tm]

\* The catch block after a failed publish.
PublishFailedCleanup(reg, tm, requestId) ==
    IF requestId \in DOMAIN reg
    THEN [reg |-> MapDelete(reg, requestId), tm |-> ClearTimeout(tm, reg[requestId].timeout)]
    ELSE [reg |-> reg, tm |-> tm]

\* sendRequest resumed after `await rabbitMQ.publish(...)`.
SendRequestResume(c) ==
    /\ calls[c].pc = "awaitPublish"
    /\ IF calls[c].publishOk
       THEN /\ calls' = [calls EXCEPT ![c] = [@ EXCEPT !.pc = "awaitReply"]]
            /\ UNCHANGED <<channelOpen, pendingRequests, timers>>
       ELSE LET after == PublishFailedCleanup(pendingRequests, timers, Uuid(c))
            IN  /\ pendingRequests' = after.reg
                /\ timers' = after.tm
                /\ calls' = [calls EXCEPT ![c] =
                                [@ EXCEPT !.pc = "done", !.outcome = "TransportError"]]
    /\ UNCHANGED <<channelOpen, isInitialized, handle, published, publishLog, consumers, inits,
                   logged>>

\* `return responsePromise`: the caller's await completes with the promise's
\* outcome once it is settled.
SendRequestReturn(c) ==
    /\ calls[c].pc = "awaitReply"
    /\ Settled(handle[c])
    /\ calls' = [calls EXCEPT ![c] = [@ EXCEPT !.pc = "done", !.outcome = "promise"]]
    /\ UNCHANGED <<channelOpen, isInitialized, pendingRequests, timers, handle, published,
                   publishLog, consumers, inits, logged>>

\* What the caller of invocation c got: "none" while it waits.
CallerOutcome(c) ==
    CASE calls[c].outcome = "none" -> [kind |-> "none", response |-> NoResponse, error |-> NoError]
      [] calls[c].outcome = "NotInitializedError" ->
            [kind |-> "threw", response |-> NoResponse, error |-> NotInitializedError]
      [] calls[c].outcome = "TransportError" ->
            [kind |-> "threw", response |-> NoResponse, error |-> TransportError(Uuid(c))]
      [] calls[c].outcome = "promise" ->
            IF handle[c].state = "fulfilled"
            THEN [kind |-> "returned", response |-> handle[c].response, error |-> NoError]
            ELSE [kind |-> "threw", response |-> NoResponse, error |-> handle[c].error]

(* ------------------------------- timers -------------------------------- *)

\* The timeout callback without its reject.
TimeoutCallbackNoReject(reg, hs, requestId, timer) ==
    [reg |-> MapDelete(reg, requestId), hs |-> hs]

\* The timeout callback without pendingRequests.delete.
TimeoutCallbackKeepsEntry(reg, hs, requestId, timer) ==
    [reg |-> reg,
     hs |-> [hs EXCEPT ![timer.call] =
                PromiseReject(@, TimeoutError(timer.timeout, requestId), requestId)]]

\* The timeout callback with pendingRequests.clear() for its delete.
TimeoutCallbackClearsRegistry(reg, hs, requestId, timer) ==
    [reg |-> EmptyMap,
     hs |-> [hs EXCEPT ![timer.call] =
                PromiseReject(@, TimeoutError(timer.timeout, requestId), requestId)]]

\* The setTimeout callback of request requestId: delete the entry, reject.
TimeoutCallback(reg, hs, requestId, timer) ==
    LET h == hs[timer.call]
        age == IF requestId \in DOMAIN reg THEN reg[requestId].age ELSE 0
        rejected == PromiseReject(h, TimeoutError(timer.timeout, requestId), requestId)
    IN  [reg |-> MapDelete(reg, requestId),
         hs |-> [hs EXCEPT ![timer.call] =
                    IF h.state = "pending" THEN [rejected EXCEPT !.waited = age]
                    ELSE rejected]]

\* A due timer fires: it is disarmed and its callback runs.
TimerFire(requestId) ==
    /\ ~MicrotaskPending
    /\ requestId \in DOMAIN timers
    /\ timers[requestId].remaining <= 0
    /\ LET after == TimeoutCallback(pendingRequests, handle, requestId, timers[requestId])
       IN  /\ pendingRequests' = after.reg
           /\ handle' = after.hs
    /\ timers' = MapDelete(timers, requestId)
    /\ UNCHANGED <<channelOpen, isInitialized, calls, published, publishLog, consumers, inits,
                   logged>>

\* The clock moves on to the next deadline; a due timer fires before the
\* clock passes it.
Advance ==
    /\ ~MicrotaskPending
    /\ DOMAIN timers # {}
    /\ \A id \in DOMAIN timers : timers[id].remaining > 0
    /\ LET d == Min({timers[id].remaining : id \in DOMAIN timers})
       IN  /\ timers' = [id \in DOMAIN timers |->
                            [timers[id] EXCEPT !.remaining = @ - d]]
           /\ pendingRequests' = [id \in DOMAIN pendingRequests |->
                                     [pendingRequests[id] EXCEPT !.age = @ + d]]
    /\ UNCHANGED <<channelOpen, isInitialized, calls, handle, published, publishLog, consumers,
                   inits, logged>>

(* ---------------------------- handleResponse --------------------------- *)

\* handleResponse without clearTimeout.
HandleResponseKeepsTimer(reg, tm, hs, lg, response) ==
    LET requestId == response.requestId
    IN  IF requestId \notin DOMAIN reg
        THEN [reg |-> reg, tm |-> tm, hs |-> hs,
              lg |-> Line("unknownRequestId", requestId)]
        ELSE LET pending == reg[requestId]
             IN  [reg |-> MapDelete(reg, requestId),
                  tm |-> tm,
                  hs |-> [hs EXCEPT ![pending.call] =
                             IF response.success
                             THEN PromiseResolve(@, response)
                             ELSE PromiseReject(@, RemoteError(response.error),
                                                requestId)],
                  lg |-> lg]

\* handleResponse that takes the oldest pending request instead of the one
\* the response names.
HandleResponseFirstEntry(reg, tm, hs, lg, response) ==
    LET requestId == response.requestId
    IN  IF reg = EmptyMap
        THEN [reg |-> reg, tm |-> tm, hs |-> hs,
              lg |-> Line("unknownRequestId", requestId)]
        ELSE LET pending == reg[Min(DOMAIN reg)]
             IN  [reg |-> MapDelete(reg, pending.requestId),
                  tm |-> ClearTimeout(tm, pending.timeout),
                  hs |-> [hs EXCEPT ![pending.call] =
                             IF response.success
                             THEN PromiseResolve(@, response)
                             ELSE PromiseReject(@, RemoteError(response.error),
                                                requestId)],
                  lg |-> lg]

\* handleResponse that settles the promise of the named request without
\* looking whether it is still pending.
HandleResponseNoLookup(reg, tm, hs, lg, response) ==
    LET requestId == response.requestId
    IN  IF requestId \notin CallIds \/ hs[requestId].state = "none"
        THEN [reg |-> reg, tm |-> tm, hs |-> hs,
              lg |-> Line("unknownRequestId", requestId)]
        ELSE [reg |-> MapDelete(reg, requestId),
              tm |-> ClearTimeout(tm, requestId),
              hs |-> [hs EXCEPT ![requestId] =
                         IF response.success
                         THEN PromiseResolve(@, response)
                         ELSE PromiseReject(@, RemoteError(response.error),
                                            requestId)],
              lg |-> lg]

\* handleResponse that resolves with an envelope stripped of its data.
HandleResponseDropsData(reg, tm, hs, lg, response) ==
    LET requestId == response.requestId
    IN  IF requestId \notin DOMAIN reg
        THEN [reg |-> reg, tm |-> tm, hs |-> hs,
              lg |-> Line("unknownRequestId", requestId)]
        ELSE LET pending == reg[requestId]
             IN  [reg |-> MapDelete(reg, requestId),
                  tm |-> ClearTimeout(tm, pending.timeout),
                  hs |-> [hs EXCEPT ![pending.call] =
                             IF response.success
                             THEN PromiseResolve(@, [response EXCEPT !.data = ""])
                             ELSE PromiseReject(@, RemoteError(response.error),
                                                requestId)],
                  lg |-> lg]

\* handleResponse that, for an unknown requestId, drops the oldest pending
\* request.
HandleResponseUnknownEvicts(reg, tm, hs, lg, response) ==
    LET requestId == response.requestId
    IN  IF requestId \notin DOMAIN reg
        THEN IF reg = EmptyMap
             THEN [reg |-> reg, tm |-> tm, hs |-> hs,
                   lg |-> Line("unknownRequestId", requestId)]
             ELSE [reg |-> MapDelete(reg, Min(DOMAIN reg)),
                   tm |-> ClearTimeout(tm, reg[Min(DOMAIN reg)].timeout),
                   hs |-> hs,
                   lg |-> Line("unknownRequestId", requestId)]
        ELSE LET pending == reg[requestId]
             IN  [reg |-> MapDelete(reg, requestId),
                  tm |-> ClearTimeout(tm, pending.timeout),
                  hs |-> [hs EXCEPT ![pending.call] =
                             IF response.success
                             THEN PromiseResolve(@, response)
                             ELSE PromiseReject(@, RemoteError(response.error),
                                                requestId)],
                  lg |-> lg]

\* handleResponse(response): look the pending request up by response.requestId;
\* unknown: warn and return; known: clear its timer, delete it, then resolve
\* (success) or reject (with the remote's error) its promise.
HandleResponse(reg, tm, hs, lg, response) ==
    LET requestId == response.requestId
    IN  IF requestId \notin DOMAIN reg
        THEN [reg |-> reg, tm |-> tm, hs |-> hs,
              lg |-> Line("unknownRequestId", requestId)]
        ELSE LET pending == reg[requestId]
             IN  [reg |-> MapDelete(reg, requestId),
                  tm |-> ClearTimeout(tm, pending.timeout),
                  hs |-> [hs EXCEPT ![pending.call] =
                             IF response.success
                             THEN PromiseResolve(@, response)
                             ELSE PromiseReject(@, RemoteError(response.error),
                                                requestId)],
                  lg |-> lg]

\* The correlation ids a response on the reply queue may carry: those of the
\* envelopes that reached the broker, or a foreign one.
ReplyIds == (DOMAIN published) \cup {ForeignId}

\* The consumer callback of the reply queue gets a (well-formed) response; the
\* broker may deliver any response any number of times (at-least-once).
DeliverReply(response) ==
    LET after == HandleResponse(pendingRequests, timers, handle, logged, response)
    IN  /\ ~MicrotaskPending
        /\ consumers > 0
        /\ response.requestId \in ReplyIds
        /\ pendingRequests' = after.reg
        /\ timers' = after.tm
        /\ handle' = after.hs
        /\ logged' = after.lg
        /\ UNCHANGED <<channelOpen, isInitialized, calls, published, publishLog, consumers, inits>>

\* Message bodies on the reply queue that are no response envelope: text that
\* is not JSON, the JSON value null, and a JSON object without a requestId.
MalformedBodies == {"unparseable", "null", "noRequestId"}

\* The consumer callback's try block throws: JSON.parse on a body that is not
\* JSON, handleResponse on destructuring null.
CallbackThrows(body) == body \in {"unparseable", "null"}

\* JSON.parse of an object without requestId, as handleResponse reads it.
ParsedBody(body) == [NoResponse EXCEPT !.requestId = NoId]

\* The consumer callback of the reply queue gets a body that is no response
\* envelope.  When its try block throws, the catch block logs the error and
\* calls channel.nack(msg, false, false), although the consumer was registered
\* with noAck: true: the broker knows no such delivery tag and closes the
\* channel (PRECONDITION_FAILED), which ends every consumer on it.  A body
\* that parses to an object goes through handleResponse.
DeliverMalformed(body) ==
    LET after == HandleResponse(pendingRequests, timers, handle, logged,
                                ParsedBody(body))
    IN  /\ ~MicrotaskPending
        /\ consumers > 0
        /\ IF CallbackThrows(body)
           THEN /\ logged' = Line("processError", NoId)
                /\ channelOpen' = FALSE
                /\ consumers' = 0
                /\ UNCHANGED <<pendingRequests, timers, handle>>
           ELSE /\ pendingRequests' = after.reg
                /\ timers' = after.tm
                /\ handle' = after.hs
                /\ logged' = after.lg
                /\ UNCHANGED <<channelOpen, consumers>>
        /\ UNCHANGED <<isInitialized, calls, published, publishLog, inits>>

(* -------------------------------- cleanup ------------------------------ *)

\* The loop of cleanup() leaving after its first pending request.
CleanupLoopFirstOnly(todo, reg, tm, hs) ==
    IF todo = {}
    THEN [reg |-> reg, tm |-> tm, hs |-> hs]
    ELSE LET requestId == Min(todo)
             pending == reg[requestId]
         IN  [reg |-> MapDelete(reg, requestId),
              tm |-> ClearTimeout(tm, pending.timeout),
              hs |-> [hs EXCEPT ![pending.call] =
                         PromiseReject(@, ShutdownError, NoId)]]

\* A loop of cleanup() that rejects every promise ever created, pending or not.
CleanupLoopRejectsSettled(todo, reg, tm, hs) ==
    [reg |-> [id \in (DOMAIN reg) \ todo |-> reg[id]],
     tm |-> [id \in (DOMAIN tm) \ todo |-> tm[id]],
     hs |-> [c \in DOMAIN hs |->
                IF hs[c].state = "none" THEN hs[c]
                ELSE PromiseReject(hs[c], ShutdownError, NoId)]]

\* A loop of cleanup() without pendingRequests.delete.
CleanupLoopKeepsEntries(todo, reg, tm, hs) ==
    [reg |-> reg,
     tm |-> [id \in (DOMAIN tm) \ todo |-> tm[id]],
     hs |-> [c \in DOMAIN hs |->
                IF \E id \in todo : reg[id].call = c
                THEN PromiseReject(hs[c], ShutdownError, NoId)
                ELSE hs[c]]]

\* The loop of cleanup(): every pending request has its timer cleared, its
\* promise rejected and its entry deleted.
RECURSIVE CleanupLoop(_, _, _, _)
CleanupLoop(todo, reg, tm, hs) ==
    IF todo = {}
    THEN [reg |-> reg, tm |-> tm, hs |-> hs]
    ELSE LET requestId == Min(todo)
             pending == reg[requestId]
         IN  CleanupLoop(todo \ {requestId},
                         MapDelete(reg, requestId),
                         ClearTimeout(tm, pending.timeout),
                         [hs EXCEPT ![pending.call] =
                             PromiseReject(@, ShutdownError, NoId)])

\* cleanup() without `this.isInitialized = false`.
CleanupKeepsInitialized ==
    LET after == CleanupLoop(DOMAIN pendingRequests, pendingRequests, timers, handle)
    IN  /\ pendingRequests' = after.reg
        /\ timers' = after.tm
        /\ handle' = after.hs
        /\ UNCHANGED <<channelOpen, isInitialized, calls, published, publishLog, consumers, inits,
                       logged>>

\* cleanup() without its loop.
CleanupFlagOnly ==
    /\ isInitialized' = FALSE
    /\ UNCHANGED <<channelOpen, pendingRequests, timers, handle, calls, published,
                   publishLog, consumers, inits, logged>>

\* cleanup(): no await in it, it runs to completion.
Cleanup ==
    LET after == CleanupLoop(DOMAIN pendingRequests, pendingRequests, timers, handle)
    IN  /\ pendingRequests' = after.reg
        /\ timers' = after.tm
        /\ handle' = after.hs
        /\ isInitialized' = FALSE
        /\ UNCHANGED <<channelOpen, calls, published, publishLog, consumers, inits, logged>>

(* ------------------------------- initialize ---------------------------- *)

InitsInFlight == inits.assertQueue + inits.consume + inits.finish

\* initialize() that does not look at isInitialized.
InitializeNoopRestarts ==
    /\ isInitialized
    /\ consumers + InitsInFlight < MaxConsumers
    /\ inits' = [inits EXCEPT !.assertQueue = @ + 1]
    /\ logged' = Line("alreadyInitialized", NoId)
    /\ UNCHANGED <<channelOpen, isInitialized, pendingRequests, timers, calls, handle,
                   published, publishLog, consumers>>

\* initialize() on an initialized service: warns and returns.
InitializeNoop ==
    /\ isInitialized
    /\ logged' = Line("alreadyInitialized", NoId)
    /\ UNCHANGED <<channelOpen, isInitialized, pendingRequests, timers, calls, handle,
                   published, publishLog, consumers, inits>>

\* initialize() up to `await rabbitMQ.assertQueue(...)`.
InitializeStart ==
    /\ ~isInitialized
    /\ consumers + InitsInFlight < MaxConsumers
    /\ inits' = [inits EXCEPT !.assertQueue = @ + 1]
    /\ UNCHANGED <<channelOpen, isInitialized, pendingRequests, timers, calls, handle,
                   published, publishLog, consumers, logged>>

\* assertQueue answered: initialize goes on to `await rabbitMQ.consume(...)`.
InitializeAssertOk ==
    /\ ~MicrotaskPending
    /\ channelOpen
    /\ inits.assertQueue > 0
    /\ inits' = [inits EXCEPT !.assertQueue = @ - 1, !.consume = @ + 1]
    /\ UNCHANGED <<channelOpen, isInitialized, pendingRequests, timers, calls, handle,
                   published, publishLog, consumers, logged>>

\* initialize() that sets isInitialized in its catch block.
InitializeFailMarksInitialized(at) ==
    /\ inits[at] > 0
    /\ inits' = [inits EXCEPT ![at] = @ - 1]
    /\ logged' = Line("initializeError", NoId)
    /\ isInitialized' = TRUE
    /\ UNCHANGED <<channelOpen, pendingRequests, timers, calls, handle,
                   published, publishLog, consumers>>

\* assertQueue or consume failed: initialize logs the error and rethrows.
InitializeFail(at) ==
    /\ inits[at] > 0
    /\ inits' = [inits EXCEPT ![at] = @ - 1]
    /\ logged' = Line("initializeError", NoId)
    /\ UNCHANGED <<channelOpen, isInitialized, pendingRequests, timers, calls, handle,
                   published, publishLog, consumers>>

\* consume answered: the broker has registered the consumer callback.
InitializeConsumeOk ==
    /\ ~MicrotaskPending
    /\ channelOpen
    /\ inits.consume > 0
    /\ consumers' = consumers + 1
    /\ inits' = [inits EXCEPT !.consume = @ - 1, !.finish = @ + 1]
    /\ UNCHANGED <<channelOpen, isInitialized, pendingRequests, timers, calls, handle,
                   published, publishLog, logged>>

\* initialize() resumed after `await rabbitMQ.consume(...)`.
InitializeFinish ==
    /\ inits.finish > 0
    /\ isInitialized' = TRUE
    /\ inits' = [inits EXCEPT !.finish = @ - 1]
    /\ UNCHANGED <<channelOpen, pendingRequests, timers, calls, handle, published,
                   publishLog, consumers, logged>>

(* ---------------------------- specification ---------------------------- *)

Next ==
    \/ InitializeNoop
    \/ InitializeStart
    \/ InitializeAssertOk
    \/ \E at \in {"assertQueue", "consume"} : InitializeFail(at)
    \/ InitializeConsumeOk
    \/ InitializeFinish
    \/ \E c \in CallIds : SendRequestNotInitialized(c)
    \/ \E c \in CallIds, arg \in TimeoutArgs, ok \in BOOLEAN : SendRequestStart(c, arg, ok)
    \/ \E c \in CallIds : SendRequestResume(c)
    \/ \E c \in CallIds : SendRequestReturn(c)
    \/ \E id \in CallIds : TimerFire(id)
    \/ Advance
    \/ \E id \in ReplyIds : \E response \in ResponsesFor(id) : DeliverReply(response)
    \/ \E body \in MalformedBodies : DeliverMalformed(body)
    \/ Cleanup

Spec == Init /\ [][Next]_vars

\* The scheduling the event loop guarantees: a queued promise continuation
\* runs, a due timer fires, and the clock reaches the next deadline.
Fairness ==
    /\ \A c \in CallIds : WF_vars(SendRequestResume(c))
    /\ \A c \in CallIds : WF_vars(SendRequestReturn(c))
    /\ \A id \in CallIds : WF_vars(TimerFire(id))
    /\ WF_vars(Advance)
    /\ WF_vars(InitializeFinish)

FairSpec == Spec /\ Fairness

(* ------------------------------- claims -------------------------------- *)

Registered(c) == handle[c].state # "none"

Terminated(c) == Registered(c) /\ Uuid(c) \notin DOMAIN pendingRequests

TimedOut(c) == handle[c].state = "rejected" /\ handle[c].error.message = "Request timeout"

Cancelled(c) == handle[c].state = "rejected" /\ handle[c].error = ShutdownError

RemoteFailed(c) ==
    /\ handle[c].state = "rejected"
    /\ \E e \in RemoteErrors : handle[c].error = RemoteError(e)

Succeeded(c) == handle[c].state = "fulfilled" /\ handle[c].response.success

\* C1: whenever sendRequest hands an envelope to rabbitMQ.publish, the pending
\* request of that correlation id is already in the registry and its timer is
\* armed; no envelope reaches the channel for an id that was not registered
\* at that moment.
C1_RegisteredBeforePublish ==
    /\ \A c \in CallIds :
          publishLog[c].attempts > 0 =>
              publishLog[c].registered /\ publishLog[c].timerArmed
    /\ \A id \in DOMAIN published :
          \E c \in CallIds : Uuid(c) = id /\ publishLog[c].registered

C1_Witness ==
    \E c \in CallIds :
        /\ Uuid(c) \in DOMAIN published
        /\ publishLog[c].registered
        /\ publishLog[c].timerArmed

\* C2 as stated: every registered pending request that has left the registry
\* was terminated by one of success, remote error, timeout or shutdown, its
\* promise settled exactly once.
C2_TerminatedMeansSettledOnce ==
    \A c \in CallIds :
        Terminated(c) =>
            /\ handle[c].settles = 1
            /\ Succeeded(c) \/ RemoteFailed(c) \/ TimedOut(c) \/ Cancelled(c)

PublishFailed(c) ==
    /\ calls[c].pc = "done"
    /\ calls[c].outcome = "TransportError"
    /\ ~calls[c].publishOk

\* C2 as amended: a pending request leaves the registry by exactly one of
\* success, remote error, timeout, shutdown, or the catch block of a failed
\* publish; in the first four cases its promise is settled exactly once, in the
\* last it is left unsettled; no promise is settled twice, and a settled
\* promise never changes.
C2_TerminatedOnce ==
    /\ [](\A c \in CallIds :
            /\ handle[c].settles <= 1
            /\ Settled(handle[c]) => handle[c].settles = 1 /\ Terminated(c)
            /\ Settled(handle[c]) =>
                  Cardinality({k \in {"s", "r", "t", "c"} :
                                  \/ k = "s" /\ Succeeded(c)
                                  \/ k = "r" /\ RemoteFailed(c) /\ handle[c].settledBy = Uuid(c)
                                  \/ k = "t" /\ TimedOut(c)
                                  \/ k = "c" /\ Cancelled(c) /\ handle[c].settledBy = NoId}) = 1
            /\ Terminated(c) => Settled(handle[c]) \/ PublishFailed(c))
    /\ [][\A c \in CallIds : Settled(handle[c]) => handle'[c] = handle[c]]_vars

C2_Witness ==
    /\ \E c \in CallIds : Terminated(c) /\ PublishFailed(c) /\ handle[c].settles = 0
    /\ \E c \in CallIds : Terminated(c) /\ TimedOut(c) /\ handle[c].settles = 1

\* C3: under the event loop's scheduling every sendRequest invocation ends
\* with an outcome for its caller: a response, or a thrown error.
C3_EveryCallEnds ==
    \A c \in CallIds :
        (calls[c].pc # "idle") ~> (calls[c].pc = "done" /\ CallerOutcome(c).kind # "none")

C3_Witness ==
    \E c \in CallIds :
        /\ calls[c].pc = "done"
        /\ calls[c].outcome = "promise"
        /\ TimedOut(c)
        /\ Uuid(c) \in DOMAIN published

\* C4: a timer is armed for a correlation id exactly when that id is in the
\* registry.
C4_TimerIffRegistered == DOMAIN timers = DOMAIN pendingRequests

C4_Witness ==
    \E c, d \in CallIds :
        /\ Succeeded(c)
        /\ Uuid(c) \notin DOMAIN timers
        /\ Uuid(d) \in DOMAIN timers
        /\ Uuid(d) \in DOMAIN pendingRequests

\* C5: a promise settled by a response was settled by the response that
\* carries its own correlation id, whatever the order of the deliveries.
C5_OwnReplyOnly ==
    \A c \in CallIds :
        /\ handle[c].state = "fulfilled" =>
              /\ handle[c].response.requestId = Uuid(c)
              /\ handle[c].settledBy = Uuid(c)
        /\ handle[c].state = "rejected" => handle[c].settledBy \in {Uuid(c), NoId}

\* The reply of the second request arrived before that of the first.
C5_Witness ==
    /\ MaxCalls >= 2
    /\ Succeeded(2)
    /\ handle[1].state = "pending"
    /\ Uuid(1) \in DOMAIN published
    /\ Uuid(1) \in DOMAIN pendingRequests

\* C6: a response whose correlation id is not (or no longer) in the registry
\* - a duplicate, or one that comes after the timeout - is logged as unknown
\* and changes nothing else: no promise is settled a second time.
C6_LateOrDuplicateReplyIsNoop ==
    [][\A id \in ReplyIds : \A response \in ResponsesFor(id) :
          (DeliverReply(response) /\ id \notin DOMAIN pendingRequests) =>
              /\ UNCHANGED <<isInitialized, pendingRequests, timers, calls, handle,
                             published, publishLog, consumers, inits>>
              /\ logged' = Line("unknownRequestId", id)]_vars

C6_Witness ==
    /\ \E c \in CallIds :
          /\ logged = Line("unknownRequestId", Uuid(c))
          /\ Succeeded(c)
          /\ handle[c].settles = 1
    /\ \E c \in CallIds : TimedOut(c) /\ Uuid(c) \in DOMAIN published

\* C7: cleanup() rejects every pending request with the same "Service shutting
\* down" error and leaves getStats().pendingRequests = 0; a promise rejected by
\* cleanup never changes afterwards.
C7_ShutdownCancelsAll ==
    [][/\ Cleanup =>
             /\ \A id \in DOMAIN pendingRequests :
                   /\ handle'[pendingRequests[id].call].state = "rejected"
                   /\ handle'[pendingRequests[id].call].error = ShutdownError
             /\ GetStats'.pendingRequests = 0
       /\ \A c \in CallIds : Cancelled(c) => handle'[c] = handle[c]]_vars

C7_Witness ==
    /\ \A c \in CallIds : Cancelled(c) /\ Uuid(c) \in DOMAIN published
    /\ GetStats.pendingRequests = 0
    /\ logged.line = "unknownRequestId"
    /\ logged.requestId \in CallIds

\* C8: cleanup() leaves the registry empty and the service uninitialized, and
\* a sendRequest made while it is uninitialized throws the not-initialized
\* error without registering, arming a timer or publishing.
C8_RejectsAfterShutdown ==
    [][/\ Cleanup => pendingRequests' = EmptyMap /\ ~isInitialized'
       /\ \A c \in CallIds :
             (~isInitialized /\ calls[c].pc = "idle" /\ calls'[c].pc # "idle") =>
                 /\ calls'[c].pc = "done"
                 /\ calls'[c].outcome = "NotInitializedError"
                 /\ UNCHANGED <<pendingRequests, timers, handle, published, publishLog>>]_vars

C8_Witness ==
    \E c, d \in CallIds :
        /\ Cancelled(c)
        /\ calls[d].outcome = "NotInitializedError"
        /\ c < d
        /\ ~isInitialized
        /\ pendingRequests = EmptyMap

\* C9: when publish throws, sendRequest's catch block leaves no entry and no
\* timer for that request, throws the transport error, has called publish
\* once, published nothing, and touches no other entry or timer.
C9_PublishFailureCleansUp ==
    [][\A c \in CallIds :
          (calls[c].pc = "awaitPublish" /\ ~calls[c].publishOk /\ calls'[c].pc # "awaitPublish") =>
              /\ Uuid(c) \notin DOMAIN pendingRequests'
              /\ Uuid(c) \notin DOMAIN timers'
              /\ calls'[c].pc = "done"
              /\ calls'[c].outcome = "TransportError"
              /\ publishLog'[c].attempts = 1
              /\ Uuid(c) \notin DOMAIN published'
              /\ \A id \in CallIds \ {Uuid(c)} :
                    /\ (id \in DOMAIN pendingRequests') = (id \in DOMAIN pendingRequests)
                    /\ id \in DOMAIN pendingRequests => pendingRequests'[id] = pendingRequests[id]
                    /\ (id \in DOMAIN timers') = (id \in DOMAIN timers)
                    /\ id \in DOMAIN timers => timers'[id] = timers[id]]_vars

C9_Witness ==
    \E c, d \in CallIds :
        /\ PublishFailed(c)
        /\ handle[c].state = "pending"
        /\ Uuid(c) \notin DOMAIN pendingRequests
        /\ Uuid(d) \in DOMAIN pendingRequests
        /\ Uuid(d) \in DOMAIN timers

\* C10: a request with timeout timeoutMs > 0 that is rejected by its timer is
\* rejected when exactly timeoutMs have passed since its registration.
C10_TimeoutOnSchedule ==
    \A c \in CallIds :
        (TimedOut(c) /\ (handle[c].error.detail[1].hi > 0 \/ handle[c].error.detail[1].lo > 0)) =>
            handle[c].error.detail[1] = Ms(0, handle[c].waited)

\* C11: a success response delivered for a pending request fulfils that
\* request's promise with that very response, data included; the caller of
\* sendRequest gets that response back - not an error, not the response of
\* another request - and a fulfilled promise never changes.
C11_SuccessReplyIsReturned ==
    /\ [][\A id \in ReplyIds : \A response \in ResponsesFor(id) :
             (DeliverReply(response) /\ response.success /\ id \in DOMAIN pendingRequests) =>
                 /\ handle'[pendingRequests[id].call].state = "fulfilled"
                 /\ handle'[pendingRequests[id].call].response = response
                 /\ handle'[pendingRequests[id].call].response.data = response.data]_vars
    /\ [](\A c \in CallIds :
             (handle[c].state = "fulfilled" /\ calls[c].pc = "done") =>
                 /\ CallerOutcome(c).kind = "returned"
                 /\ CallerOutcome(c).response = handle[c].response
                 /\ CallerOutcome(c).response.requestId = Uuid(c)
                 /\ CallerOutcome(c).response.data \in Payloads)
    /\ [][\A c \in CallIds :
             handle[c].state = "fulfilled" => handle'[c].state = "fulfilled"]_vars

\* Two calls have returned, each with its own data.
C11_Witness ==
    \E c, d \in CallIds :
        /\ calls[c].pc = "done" /\ CallerOutcome(c).kind = "returned"
        /\ calls[d].pc = "done" /\ CallerOutcome(d).kind = "returned"
        /\ CallerOutcome(c).response.data = "d1"
        /\ CallerOutcome(d).response.data = "d2"

\* String(n) for a number n >= 0: its decimal digits.
DigitChar(d) ==
    CASE d = 0 -> "0" [] d = 1 -> "1" [] d = 2 -> "2" [] d = 3 -> "3"
      [] d = 4 -> "4" [] d = 5 -> "5" [] d = 6 -> "6" [] d = 7 -> "7"
      [] d = 8 -> "8" [] OTHER -> "9"

RECURSIVE CodeText(_)
CodeText(n) ==
    IF n < 10 THEN <<DigitChar(n)>> ELSE CodeText(n \div 10) \o <<DigitChar(n % 10)>>

\* C12: a success = false response that carries an error, delivered for a
\* pending request, rejects that request's promise with an error whose code
\* and message are the response's error code and message, unchanged.
C12_RemoteErrorVerbatim ==
    [][\A id \in ReplyIds : \A response \in ResponsesFor(id) :
          (/\ DeliverReply(response)
           /\ ~response.success
           /\ response.error.present
           /\ id \in DOMAIN pendingRequests) =>
              /\ handle'[pendingRequests[id].call].state = "rejected"
              /\ CodeText(handle'[pendingRequests[id].call].error.code) = response.error.code
              /\ handle'[pendingRequests[id].call].error.message = response.error.message]_vars

\* C13: sendRequest on a service that is not initialized throws the
\* not-initialized error; it creates no promise, registers nothing, arms no
\* timer and calls publish not once.
C13_NotInitializedRejects ==
    [][\A c \in CallIds :
          (NextCall(c) /\ ~isInitialized /\ calls'[c].pc # "idle") =>
              /\ calls'[c].pc = "done"
              /\ CallerOutcome(c)'.kind = "threw"
              /\ CallerOutcome(c)'.error = NotInitializedError
              /\ pendingRequests' = pendingRequests
              /\ timers' = timers
              /\ published' = published
              /\ publishLog'[c].attempts = 0
              /\ handle'[c].state = "none"]_vars

\* The first sendRequest came before any initialize().
C13_Witness ==
    /\ calls[1].outcome = "NotInitializedError"
    /\ CallerOutcome(1).error = NotInitializedError
    /\ ~isInitialized
    /\ consumers = 0
    /\ channelOpen
    /\ InitsInFlight = 0
    /\ published = EmptyMap
    /\ pendingRequests = EmptyMap

\* C14: a response with a correlation id that was never registered leaves the
\* registry, the timers, the promises and the callers as they are, is logged
\* as unknown, and the consumer stays registered on an open channel.
C14_UnknownIdIsHarmless ==
    [][\A response \in ResponsesFor(ForeignId) :
          DeliverReply(response) =>
              /\ Cardinality(DOMAIN pendingRequests') = Cardinality(DOMAIN pendingRequests)
              /\ UNCHANGED <<pendingRequests, timers, handle, calls>>
              /\ logged' = Line("unknownRequestId", ForeignId)
              /\ consumers' = consumers
              /\ consumers' > 0
              /\ channelOpen']_vars

C14_Witness ==
    /\ logged = Line("unknownRequestId", ForeignId)
    /\ pendingRequests # EmptyMap
    /\ \E c \in CallIds : handle[c].state = "pending" /\ Uuid(c) \in DOMAIN timers
    /\ consumers > 0
    /\ channelOpen

\* C15: a body on the reply queue that is no response envelope is logged and
\* dropped: the registry, the timers, the promises and the callers stay as
\* they are, and the consumer stays registered on an open channel.
C15_MalformedReplyIsDiscarded ==
    [][\A body \in MalformedBodies :
          DeliverMalformed(body) =>
              /\ UNCHANGED <<pendingRequests, timers, handle, calls>>
              /\ consumers' = consumers
              /\ channelOpen' = channelOpen]_vars

LiveCall(c) == calls[c].pc \in {"awaitPublish", "awaitReply"} /\ handle[c].state = "pending"

\* C16: the sendRequest invocations that are under way have pairwise distinct
\* correlation ids, and the registry holds one entry for each of them, under
\* its own id.
C16_DistinctIds ==
    /\ \A c, d \in CallIds : (LiveCall(c) /\ LiveCall(d) /\ c # d) => Uuid(c) # Uuid(d)
    /\ Cardinality(DOMAIN pendingRequests) = Cardinality({c \in CallIds : LiveCall(c)})
    /\ \A c \in CallIds :
          LiveCall(c) =>
              /\ Uuid(c) \in DOMAIN pendingRequests
              /\ pendingRequests[Uuid(c)].call = c
              /\ pendingRequests[Uuid(c)].requestId = Uuid(c)

C16_Witness ==
    /\ Cardinality({c \in CallIds : LiveCall(c)}) = MaxCalls
    /\ Cardinality(DOMAIN pendingRequests) = MaxCalls
    /\ MaxCalls >= 2

\* C17: initialize() on an initialized service changes nothing but the
\* console; while the service is initialized no initialize() begins to declare
\* the queue or to register a consumer.
C17_InitializeAgainIsNoop ==
    [][/\ InitializeNoop =>
             UNCHANGED <<isInitialized, pendingRequests, timers, calls, handle,
                         published, publishLog, consumers, channelOpen, inits>>
       /\ isInitialized => InitsInFlight' <= InitsInFlight]_vars

C17_Witness ==
    /\ logged = Line("alreadyInitialized", NoId)
    /\ isInitialized
    /\ consumers = 1
    /\ InitsInFlight = 0
    /\ pendingRequests # EmptyMap

\* C18: cleanup() with an empty registry changes nothing but the initialized
\* flag, which it leaves false; on a service that is already cleaned up it
\* changes nothing at all; no settled promise is touched.
C18_ShutdownTwiceIsSafe ==
    /\ [](pendingRequests = EmptyMap =>
             CleanupLoop(DOMAIN pendingRequests, pendingRequests, timers, handle)
                 = [reg |-> pendingRequests, tm |-> timers, hs |-> handle])
    /\ [][Cleanup =>
             /\ ~isInitialized'
             /\ pendingRequests' = EmptyMap
             /\ pendingRequests = EmptyMap =>
                    UNCHANGED <<pendingRequests, timers, calls, handle, published,
                                publishLog, consumers, channelOpen, inits, logged>>
             /\ (~isInitialized /\ pendingRequests = EmptyMap) => UNCHANGED vars
             /\ \A c \in CallIds : Settled(handle[c]) => handle'[c] = handle[c]]_vars

\* cleanup() has run on an initialized service on which no sendRequest was
\* ever made.
C18_Witness ==
    /\ ~isInitialized
    /\ consumers > 0
    /\ InitsInFlight = 0
    /\ pendingRequests = EmptyMap
    /\ \A c \in CallIds : handle[c].state = "none" /\ calls[c].pc = "idle"

\* C19: cleanup() leaves no consumer registered on the reply queue and the
\* service uninitialized.
C19_ShutdownStopsListener ==
    [][Cleanup => (consumers' = 0 /\ ~isInitialized')]_vars

\* C20: at most one consumer is registered on the reply queue.
C20_SingleListener == consumers <= 1

\* C21: registering under a requestId that is already in the registry leaves
\* the registry as it is (the existing entry is not replaced).
C21_DuplicateIdRejected ==
    \A id \in DOMAIN pendingRequests : \A c \in CallIds :
        RegisterPending(pendingRequests, id, c) = pendingRequests

\* C22: while a request is registered and its envelope has not reached the
\* channel, nothing but that sendRequest's own next step happens to the
\* registry, the promises and the other invocations: no other sendRequest
\* moves, no promise is settled, and the registry changes only by that
\* invocation ending.
C22_PendingIsAtomic ==
    [][\A c \in CallIds :
          (/\ calls[c].pc = "awaitPublish"
           /\ Uuid(c) \in DOMAIN pendingRequests
           /\ Uuid(c) \notin DOMAIN published) =>
              /\ \A d \in CallIds \ {c} : calls'[d] = calls[d]
              /\ handle' = handle
              /\ pendingRequests' = pendingRequests \/ calls'[c].pc = "done"]_vars

\* C23: the registry holds exactly the requests of the invocations that are
\* under way with an unsettled promise; getStats().pendingRequests is their
\* number; a request whose promise is settled or whose publish failed is not
\* in the registry.
C23_RegistryIsPendingCalls ==
    /\ DOMAIN pendingRequests = {Uuid(c) : c \in {d \in CallIds : LiveCall(d)}}
    /\ GetStats.pendingRequests = Cardinality({c \in CallIds : LiveCall(c)})
    /\ \A c \in CallIds :
          (Settled(handle[c]) \/ PublishFailed(c)) => Uuid(c) \notin DOMAIN pendingRequests

C23_Witness ==
    \E c, d \in CallIds :
        /\ TimedOut(c)
        /\ calls[c].pc = "done"
        /\ LiveCall(d)
        /\ calls[d].pc = "awaitReply"
        /\ GetStats.pendingRequests = 1

Touched(c) == handle'[c] # handle[c] \/ calls'[c] # calls[c]

Untouched(d) ==
    /\ handle'[d] = handle[d]
    /\ calls'[d] = calls[d]
    /\ publishLog'[d] = publishLog[d]
    /\ (Uuid(d) \in DOMAIN pendingRequests') = (Uuid(d) \in DOMAIN pendingRequests)
    /\ Uuid(d) \in DOMAIN pendingRequests =>
           pendingRequests'[Uuid(d)] = pendingRequests[Uuid(d)]
    /\ (Uuid(d) \in DOMAIN timers') = (Uuid(d) \in DOMAIN timers)
    /\ Uuid(d) \in DOMAIN timers => timers'[Uuid(d)] = timers[Uuid(d)]
    /\ (Uuid(d) \in DOMAIN published') = (Uuid(d) \in DOMAIN published)

\* C24: a step other than cleanup() that settles the promise of one
\* invocation, or moves that invocation on, leaves every other invocation,
\* its promise, its registry entry and its timer as they are; a step of
\* sendRequest changes neither the initialized flag, nor the consumers, nor
\* the channel, nor an initialize() in progress.
C24_TerminationIsLocal ==
    [][/\ ~Cleanup =>
             \A c, d \in CallIds : (c # d /\ Touched(c)) => Untouched(d)
       /\ \A c \in CallIds :
             calls'[c] # calls[c] =>
                 UNCHANGED <<isInitialized, consumers, channelOpen, inits, logged>>]_vars

C24_Witness ==
    \E c, d \in CallIds :
        /\ c # d
        /\ RemoteFailed(c)
        /\ calls[c].pc = "done"
        /\ CallerOutcome(c).kind = "threw"
        /\ LiveCall(d)
        /\ Uuid(d) \in DOMAIN pendingRequests
        /\ Uuid(d) \in DOMAIN timers

Suspended(c) == calls[c].pc = "awaitReply" /\ handle[c].state = "pending"

\* C25: while invocations are suspended on their promises, the next
\* sendRequest on an initialized service with an open channel can register
\* and publish, and the consumer callback can take any response off the
\* reply queue once no promise continuation is queued.
C25_PendingCallsDoNotBlock ==
    (\E c \in CallIds : Suspended(c)) =>
        /\ \A d \in CallIds :
              (/\ calls[d].pc = "idle"
               /\ \A e \in CallIds : e < d => calls[e].pc # "idle"
               /\ isInitialized
               /\ channelOpen) =>
                  ENABLED SendRequestStart(d, Undefined, TRUE)
        /\ (consumers > 0 /\ ~MicrotaskPending) =>
              \A id \in ReplyIds : \A response \in ResponsesFor(id) :
                  ENABLED DeliverReply(response)

\* The second request was registered and answered while the first was
\* suspended.
C25_Witness ==
    /\ MaxCalls >= 2
    /\ Suspended(1)
    /\ calls[2].pc = "done"
    /\ CallerOutcome(2).kind = "returned"
    /\ Uuid(1) \in DOMAIN pendingRequests

\* C26: the timer sendRequest arms is due after exactly the timeout its
\* published envelope carries, and that timeout is greater than 0.
C26_TimerMatchesEnvelope ==
    [][\A c \in CallIds :
          (/\ calls[c].pc = "idle"
           /\ calls'[c].pc = "awaitPublish"
           /\ Uuid(c) \in DOMAIN published') =>
              /\ Ms(0, timers'[Uuid(c)].remaining) = published'[Uuid(c)].timeout
              /\ published'[Uuid(c)].timeout.hi > 0 \/ published'[Uuid(c)].timeout.lo > 0]_vars

\* C27: an invocation that has ended with its promise settled has given its
\* caller that promise's outcome.
C27_CallerGetsHandleOutcome ==
    \A c \in CallIds :
        (calls[c].pc = "done" /\ Settled(handle[c])) =>
            /\ calls[c].outcome = "promise"
            /\ handle[c].state = "rejected" => CallerOutcome(c).error = handle[c].error

\* C28: while the service is not initialized the registry is empty and no
\* timer is armed.
C28_UninitializedMeansEmpty ==
    ~isInitialized =>
        /\ pendingRequests = EmptyMap
        /\ timers = EmptyMap
        /\ GetStats.pendingRequests = 0

\* An initialize() has failed and another is in progress, after a cleanup()
\* that cancelled a request.
C28_Witness ==
    /\ ~isInitialized
    /\ logged = Line("initializeError", NoId)
    /\ InitsInFlight > 0
    /\ \E c \in CallIds : Cancelled(c)
    /\ GetStats.pendingRequests = 0

\* C29: an initialize() that fails logs the error and leaves the initialized
\* flag, the registry and the consumers as they were; while the service is
\* not initialized sendRequest throws the not-initialized error and
\* initialize() starts over with the queue declaration.
C29_FailedInitializeChangesNothing ==
    /\ [][\A at \in {"assertQueue", "consume"} :
             InitializeFail(at) =>
                 /\ UNCHANGED <<isInitialized, pendingRequests, timers, calls, handle,
                                published, publishLog, consumers, channelOpen>>
                 /\ logged' = Line("initializeError", NoId)
                 /\ InitsInFlight' = InitsInFlight - 1]_vars
    /\ []((~isInitialized /\ logged = Line("initializeError", NoId)) =>
             /\ pendingRequests = EmptyMap
             /\ \A c \in CallIds :
                   (calls[c].pc = "idle" /\ \A e \in CallIds : e < c => calls[e].pc # "idle") =>
                       /\ ENABLED SendRequestNotInitialized(c)
                       /\ \A arg \in TimeoutArgs, ok \in BOOLEAN :
                             ~ENABLED SendRequestStart(c, arg, ok)
             /\ (consumers + InitsInFlight < MaxConsumers) => ENABLED InitializeStart)

\* After a failed initialize() a sendRequest was refused and an initialize()
\* went through.
C29_Witness ==
    /\ logged = Line("initializeError", NoId)
    /\ calls[1].outcome = "NotInitializedError"
    /\ isInitialized
    /\ consumers = 1
    /\ InitsInFlight = 0

\* C30: on a service initialized again after cleanup(), the next sendRequest
\* can register and publish, and a response for a request that cleanup()
\* cancelled is logged as unknown and leaves the registry, the timers, the
\* promises and the callers as they are.
C30_ReinitializedServiceWorks ==
    /\ []((isInitialized /\ channelOpen /\ \E c \in CallIds : Cancelled(c)) =>
             \A d \in CallIds :
                 (calls[d].pc = "idle" /\ \A e \in CallIds : e < d => calls[e].pc # "idle") =>
                     ENABLED SendRequestStart(d, Undefined, TRUE))
    /\ [][\A c \in CallIds : \A response \in ResponsesFor(Uuid(c)) :
             (Cancelled(c) /\ DeliverReply(response)) =>
                 /\ UNCHANGED <<isInitialized, pendingRequests, timers, calls, handle>>
                 /\ Cancelled(c)'
                 /\ logged' = Line("unknownRequestId", Uuid(c))]_vars

\* The first request was cancelled by cleanup(); after the next initialize()
\* the second was registered, and then a response for the first arrived.
C30_Witness ==
    /\ MaxCalls >= 2
    /\ Cancelled(1)
    /\ isInitialized
    /\ LiveCall(2)
    /\ Uuid(2) \in DOMAIN pendingRequests
    /\ logged = Line("unknownRequestId", Uuid(1))

====
